---- MODULE Spec2Model ----
(***************************************************************************)
(* A model of ccount (src/src/main.rs): a command-line character-frequency *)
(* counter.  One process run is main -> run -> read_text ->                 *)
(* create_counter -> sorted_by -> one display branch -> exit.              *)
(*                                                                         *)
(* Characters are Unicode scalar values, modelled as their code points.    *)
(* A string is a sequence of code points.  Option<T> is modelled as a      *)
(* sequence of length 0 (None) or 1 (Some(x)).  Standard output is the     *)
(* sequence of lines written by println!, each line a sequence of code     *)
(* points; standard output is taken to accept every write.                 *)
(***************************************************************************)
EXTENDS Integers, Sequences, FiniteSets, TLC

VARIABLES
    args,        \* the parsed command line (struct Args)
    stdin,       \* the standard input stream: data, whether reading it succeeds, chars consumed
    reads,       \* number of read_to_string calls made on standard input
    pc,          \* position of the process in main/run
    text,        \* run's local `text`
    counter,     \* run's first `counter`: the HashMap<char, usize>
    sorted,      \* run's second `counter`: the sorted_by sequence of (char, count)
    divisors,    \* the divisors of the divisions evaluated in the percentage branch
    stdout,      \* lines written to standard output
    stderr,      \* lines written to standard error
    run_result,  \* <<>> while run is executing, then <<"Ok">> or <<"Err", message>>
    exit_code,   \* -1 while the process runs, then its exit code
    prev         \* <<>> or <<standard output of the previous run of the same command>>

vars == <<args, stdin, reads, pc, text, counter, sorted, divisors, stdout, stderr,
          run_result, exit_code, prev>>

----------------------------------------------------------------------------
(* Bounds of the model *)

\* longest input text (argument or standard input) of the sorting and display specifications
MaxLen == 4
\* longest input text of the input-acquisition and precedence specifications
MaxShortLen == 2
\* largest threshold N given to --show-top-n / -g / -l / -e
MaxN == 2

\* The characters input texts are drawn from: two whitespace characters
\* (SPACE and the non-ASCII NO-BREAK SPACE) and 'A', 'a', 'b'.
Alphabet == {32, 160, 65, 97, 98}

None == <<>>
Some(x) == <<x>>
Option(S) == {None} \cup {Some(x) : x \in S}

Strings(n) == UNION {[1..k -> Alphabet] : k \in 0..n}

----------------------------------------------------------------------------
(* Pure functions *)

\* is_whitespace with char::is_ascii_whitespace in its place
is_ascii_whitespace(c) == c \in {9, 10, 12, 13, 32}

\* char::is_whitespace: the Unicode White_Space property
is_whitespace(c) ==
    \/ c \in 9..13
    \/ c \in {32, 133, 160, 5760, 8232, 8233, 8239, 8287, 12288}
    \/ c \in 8192..8202

EmptyMap == [c \in {} |-> 0]

\* *counter.entry(c).or_default() += 1
entry_or_default_incr(m, c) ==
    IF c \in DOMAIN m
    THEN [m EXCEPT ![c] = @ + 1]
    ELSE [k \in DOMAIN m \cup {c} |-> IF k = c THEN 0 + 1 ELSE m[k]]

\* text.chars().filter(|c| !c.is_whitespace()).for_each(...), from the map m on
RECURSIVE for_each_char(_, _)
for_each_char(m, chars) ==
    IF chars = <<>> THEN m
    ELSE IF is_whitespace(Head(chars))
         THEN for_each_char(m, Tail(chars))
         ELSE for_each_char(entry_or_default_incr(m, Head(chars)), Tail(chars))

\* create_counter without the .filter(...) step
create_counter_no_filter(t) ==
    LET RECURSIVE all_chars(_, _)
        all_chars(m, chars) ==
            IF chars = <<>> THEN m
            ELSE all_chars(entry_or_default_incr(m, Head(chars)), Tail(chars))
    IN  all_chars(EmptyMap, t)

create_counter(t) == for_each_char(EmptyMap, t)

\* The entries (&char, &usize) of a map
Entries(m) == {<<c, m[c]>> : c \in DOMAIN m}

\* counter.iter(): a HashMap with the default RandomState hasher yields its
\* entries in an order that depends on the per-process hash seed: any order.
IterOrders(m) ==
    {s \in [1..Cardinality(DOMAIN m) -> Entries(m)] :
        \A i, j \in 1..Cardinality(DOMAIN m) : s[i] = s[j] => i = j}

\* Ord::cmp on integers (char and usize)
cmp(x, y) == IF x < y THEN "Less" ELSE IF x > y THEN "Greater" ELSE "Equal"

\* the closure with the Char arms comparing b to a
compare_char_descending(sort_by, a, b) ==
    IF sort_by = Some("Char") THEN cmp(b[1], a[1])
    ELSE IF sort_by = Some("Count") THEN cmp(b[2], a[2])
    ELSE cmp(b[1], a[1])

\* the closure with the Count arm comparing a to b
compare_count_ascending(sort_by, a, b) ==
    IF sort_by = Some("Char") THEN cmp(a[1], b[1])
    ELSE IF sort_by = Some("Count") THEN cmp(a[2], b[2])
    ELSE cmp(a[1], b[1])

\* the closure given to sorted_by
compare(sort_by, a, b) ==
    IF sort_by = Some("Char") THEN cmp(a[1], b[1])
    ELSE IF sort_by = Some("Count") THEN cmp(b[2], a[2])
    ELSE cmp(a[1], b[1])

\* One step of the stable sort behind sorted_by (Vec::sort_by is an insertion
\* sort for short slices): x moves left past every element it is Less than.
RECURSIVE insert_tail(_, _, _)
insert_tail(sort_by, s, x) ==
    IF s = <<>> THEN <<x>>
    ELSE IF compare(sort_by, x, s[Len(s)]) = "Less"
         THEN Append(insert_tail(sort_by, SubSeq(s, 1, Len(s) - 1), x), s[Len(s)])
         ELSE Append(s, x)

RECURSIVE sort_from(_, _, _)
sort_from(sort_by, done, rest) ==
    IF rest = <<>> THEN done
    ELSE sort_from(sort_by, insert_tail(sort_by, done, Head(rest)), Tail(rest))

sorted_by(it, sort_by) == sort_from(sort_by, <<>>, it)

\* Display of a usize with "{}": its decimal digits
RECURSIVE fmt_usize(_)
fmt_usize(n) ==
    IF n < 10 THEN <<48 + n>> ELSE Append(fmt_usize(n \div 10), 48 + (n % 10))

\* .sum::<usize>() over the counts of the sequence
RECURSIVE sum_counts(_)
sum_counts(s) == IF s = <<>> THEN 0 ELSE s[1][2] + sum_counts(Tail(s))

\* (count as f64 / total) * 100.0 shown with "{:.2}", as a number of
\* hundredths: the quotient rounded to two decimals, ties to even.  (A tie
\* needs a total that is a multiple of 32; below that the f64 value rounds as
\* the exact quotient does.)
percent_hundredths(count, total) ==
    LET num == count * 10000
        fl  == num \div total
        rem == num % total
    IN  IF 2 * rem < total THEN fl
        ELSE IF 2 * rem > total THEN fl + 1
        ELSE IF fl % 2 = 0 THEN fl ELSE fl + 1

fmt_fixed2(h) ==
    fmt_usize(h \div 100) \o <<46, 48 + ((h \div 10) % 10), 48 + (h % 10)>>

\* println!("{}: {}", char, count)
plain_line(e) == <<e[1], 58, 32>> \o fmt_usize(e[2])

\* println!("{}: {:.2}", char, percent)
percent_line(e, total) == <<e[1], 58, 32>> \o fmt_fixed2(percent_hundredths(e[2], total))

\* take that yields one entry too many
take_one_more(s, n) == SubSeq(s, 1, IF n + 1 < Len(s) THEN n + 1 ELSE Len(s))

\* Iterator::take(n)
take(s, n) == SubSeq(s, 1, IF n < Len(s) THEN n ELSE Len(s))

\* the lines of `for (char, count) in <iterator> { println!(...) }`
plain_lines(s) == [i \in 1..Len(s) |-> plain_line(s[i])]

\* the chain with the less-than branch tested before the more-than branch
present_less_before_more(a, s) ==
    IF a.show_percent_freq
    THEN [i \in 1..Len(s) |-> percent_line(s[i], sum_counts(s))]
    ELSE IF a.show_top_n # None
    THEN plain_lines(take(s, a.show_top_n[1]))
    ELSE IF a.show_less_than_n # None
    THEN plain_lines(SelectSeq(s, LAMBDA e : e[2] < a.show_less_than_n[1]))
    ELSE IF a.show_more_than_n # None
    THEN plain_lines(SelectSeq(s, LAMBDA e : e[2] > a.show_more_than_n[1]))
    ELSE IF a.show_exactly_n # None
    THEN plain_lines(SelectSeq(s, LAMBDA e : e[2] = a.show_exactly_n[1]))
    ELSE plain_lines(s)

\* the chain with >= in the more-than filter
present_more_or_equal(a, s) ==
    IF a.show_percent_freq
    THEN [i \in 1..Len(s) |-> percent_line(s[i], sum_counts(s))]
    ELSE IF a.show_top_n # None
    THEN plain_lines(take(s, a.show_top_n[1]))
    ELSE IF a.show_more_than_n # None
    THEN plain_lines(SelectSeq(s, LAMBDA e : e[2] >= a.show_more_than_n[1]))
    ELSE IF a.show_less_than_n # None
    THEN plain_lines(SelectSeq(s, LAMBDA e : e[2] < a.show_less_than_n[1]))
    ELSE IF a.show_exactly_n # None
    THEN plain_lines(SelectSeq(s, LAMBDA e : e[2] = a.show_exactly_n[1]))
    ELSE plain_lines(s)

\* The if / else-if chain of run over the display options: the lines printed
present(a, s) ==
    IF a.show_percent_freq
    THEN [i \in 1..Len(s) |-> percent_line(s[i], sum_counts(s))]
    ELSE IF a.show_top_n # None
    THEN plain_lines(take(s, a.show_top_n[1]))
    ELSE IF a.show_more_than_n # None
    THEN plain_lines(SelectSeq(s, LAMBDA e : e[2] > a.show_more_than_n[1]))
    ELSE IF a.show_less_than_n # None
    THEN plain_lines(SelectSeq(s, LAMBDA e : e[2] < a.show_less_than_n[1]))
    ELSE IF a.show_exactly_n # None
    THEN plain_lines(SelectSeq(s, LAMBDA e : e[2] = a.show_exactly_n[1]))
    ELSE plain_lines(s)

\* the divisors of the divisions `*count as f64 / total` the chain evaluates
present_divisors(a, s) ==
    IF a.show_percent_freq THEN {sum_counts(s) : i \in 1..Len(s)} ELSE {}

----------------------------------------------------------------------------
(* The process *)

\* The state at the start of run, for command lines and streams drawn from
\* the given sets
InitWith(TextArgs, StdinData, StdinOk, SortBys, Percents, TopNs, MoreNs, LessNs, ExactNs) ==
    /\ args \in [text : TextArgs, sort_by : SortBys, show_percent_freq : Percents,
                 show_top_n : TopNs, show_more_than_n : MoreNs,
                 show_less_than_n : LessNs, show_exactly_n : ExactNs]
    /\ stdin \in [data : StdinData, ok : StdinOk, pos : {0}]
    /\ reads = 0
    /\ pc = "read_text"
    /\ text = <<>>
    /\ counter = EmptyMap
    /\ sorted = <<>>
    /\ divisors = {}
    /\ stdout = <<>>
    /\ stderr = <<>>
    /\ run_result = <<>>
    /\ exit_code = -1
    /\ prev = None

SortByValues == Option({"Char", "Count"})
Thresholds == Option(0..MaxN)

\* read_text that drains standard input before it looks at the argument
read_text_eager_stdin ==
    /\ pc = "read_text"
    /\ reads' = reads + 1
    /\ IF stdin.ok
       THEN /\ text' = IF args.text # None THEN args.text[1] ELSE stdin.data
            /\ stdin' = [stdin EXCEPT !.pos = Len(stdin.data)]
            /\ pc' = "create_counter"
            /\ UNCHANGED run_result
       ELSE /\ \E p \in stdin.pos..Len(stdin.data) :
                    stdin' = [stdin EXCEPT !.pos = p]
            /\ run_result' = <<"Err", "stdin read error">>
            /\ pc' = "exit"
            /\ UNCHANGED text
    /\ UNCHANGED <<args, counter, sorted, divisors, stdout, stderr, exit_code, prev>>

\* let text = read_text(args.text)?;
read_text ==
    /\ pc = "read_text"
    /\ IF args.text # None
       THEN /\ text' = args.text[1]
            /\ pc' = "create_counter"
            /\ UNCHANGED <<stdin, reads, run_result>>
       ELSE /\ reads' = reads + 1
            /\ IF stdin.ok
               THEN /\ text' = stdin.data
                    /\ stdin' = [stdin EXCEPT !.pos = Len(stdin.data)]
                    /\ pc' = "create_counter"
                    /\ UNCHANGED run_result
               ELSE /\ \E p \in stdin.pos..Len(stdin.data) :
                            stdin' = [stdin EXCEPT !.pos = p]
                    /\ run_result' = <<"Err", "stdin read error">>
                    /\ pc' = "exit"
                    /\ UNCHANGED text
    /\ UNCHANGED <<args, counter, sorted, divisors, stdout, stderr, exit_code, prev>>

\* let counter = create_counter(&text);
run_create_counter ==
    /\ pc = "create_counter"
    /\ counter' = create_counter(text)
    /\ pc' = "sorted_by"
    /\ UNCHANGED <<args, stdin, reads, text, sorted, divisors, stdout, stderr,
                   run_result, exit_code, prev>>

\* let counter = counter.iter().sorted_by(...);
run_sorted_by ==
    /\ pc = "sorted_by"
    /\ \E it \in IterOrders(counter) : sorted' = sorted_by(it, args.sort_by)
    /\ pc' = "present"
    /\ UNCHANGED <<args, stdin, reads, text, counter, divisors, stdout, stderr,
                   run_result, exit_code, prev>>

\* the display chain, then Ok(())
run_present ==
    /\ pc = "present"
    /\ stdout' = stdout \o present(args, sorted)
    /\ divisors' = present_divisors(args, sorted)
    /\ run_result' = <<"Ok">>
    /\ pc' = "exit"
    /\ UNCHANGED <<args, stdin, reads, text, counter, sorted, stderr, exit_code, prev>>

\* main without the std::process::exit(1)
main_exit_always_zero ==
    /\ pc = "exit"
    /\ IF run_result[1] = "Err"
       THEN stderr' = Append(stderr, <<"Error: ", run_result[2]>>)
       ELSE stderr' = stderr
    /\ exit_code' = 0
    /\ pc' = "done"
    /\ UNCHANGED <<args, stdin, reads, text, counter, sorted, divisors, stdout,
                   run_result, prev>>

\* main: if let Err(e) = run(args) { eprintln!("Error: {}", e); exit(1) }
main_exit ==
    /\ pc = "exit"
    /\ IF run_result[1] = "Err"
       THEN /\ stderr' = Append(stderr, <<"Error: ", run_result[2]>>)
            /\ exit_code' = 1
       ELSE /\ stderr' = stderr
            /\ exit_code' = 0
    /\ pc' = "done"
    /\ UNCHANGED <<args, stdin, reads, text, counter, sorted, divisors, stdout,
                   run_result, prev>>

\* The same command line is run again as a new process on the same input
main_again ==
    /\ pc = "done"
    /\ prev' = Some(stdout)
    /\ stdin' = [stdin EXCEPT !.pos = 0]
    /\ reads' = 0
    /\ pc' = "read_text"
    /\ text' = <<>>
    /\ counter' = EmptyMap
    /\ sorted' = <<>>
    /\ divisors' = {}
    /\ stdout' = <<>>
    /\ stderr' = <<>>
    /\ run_result' = <<>>
    /\ exit_code' = -1
    /\ UNCHANGED args

Next ==
    \/ read_text
    \/ run_create_counter
    \/ run_sorted_by
    \/ run_present
    \/ main_exit

\* One run; every combination of the display options, short texts as argument
Init ==
    InitWith(Option(Strings(MaxShortLen)), {<<>>}, {TRUE}, SortByValues, BOOLEAN,
             Thresholds, Thresholds, Thresholds, Thresholds)

Spec == Init /\ [][Next]_vars

\* One run; every input source (argument, readable or failing standard input)
InitInput ==
    InitWith(Option(Strings(MaxShortLen)), Strings(MaxShortLen), BOOLEAN,
             SortByValues, BOOLEAN, {None}, {None}, {None}, {None})

SpecInput == InitInput /\ [][Next]_vars

\* One run; longer texts as argument under every sort key, no display option
InitSort ==
    InitWith({Some(t) : t \in Strings(MaxLen)}, {<<>>}, {TRUE}, SortByValues,
             {FALSE}, {None}, {None}, {None}, {None})

SpecSort == InitSort /\ [][Next]_vars

\* One run; longer texts as argument, at most one display option given
InitModes ==
    \/ InitWith({Some(t) : t \in Strings(MaxLen)}, {<<>>}, {TRUE}, SortByValues,
                BOOLEAN, {None}, {None}, {None}, {None})
    \/ InitWith({Some(t) : t \in Strings(MaxLen)}, {<<>>}, {TRUE}, SortByValues,
                {FALSE}, Thresholds, {None}, {None}, {None})
    \/ InitWith({Some(t) : t \in Strings(MaxLen)}, {<<>>}, {TRUE}, SortByValues,
                {FALSE}, {None}, Thresholds, {None}, {None})
    \/ InitWith({Some(t) : t \in Strings(MaxLen)}, {<<>>}, {TRUE}, SortByValues,
                {FALSE}, {None}, {None}, Thresholds, {None})
    \/ InitWith({Some(t) : t \in Strings(MaxLen)}, {<<>>}, {TRUE}, SortByValues,
                {FALSE}, {None}, {None}, {None}, Thresholds)

SpecModes == InitModes /\ [][Next]_vars

\* The same command run any number of times, each run a new process
NextAgain == Next \/ main_again

SpecTwoRuns == InitSort /\ [][NextAgain]_vars
----------------------------------------------------------------------------
(* Definitions used to state the properties *)

\* The Unicode White_Space code points
WhiteSpaceChars ==
    (9..13) \cup {32, 133, 160, 5760, 8232, 8233, 8239, 8287, 12288} \cup (8192..8202)

NonWhitespacePositions(t) == {i \in 1..Len(t) : t[i] \notin WhiteSpaceChars}

Occurrences(t, c) == Cardinality({i \in 1..Len(t) : t[i] = c})

RECURSIVE SumOfCounts(_, _)
SumOfCounts(m, keys) ==
    IF keys = {} THEN 0
    ELSE LET k == CHOOSE x \in keys : TRUE
         IN  m[k] + SumOfCounts(m, keys \ {k})

Range(s) == {s[i] : i \in 1..Len(s)}

\* run has read its text, so `counter` holds create_counter's result
Counted == pc \in {"sorted_by", "present", "exit", "done"} /\ run_result # <<"Err", "stdin read error">>

\* run has built the ordered sequence
Ordered == pc \in {"present", "exit", "done"} /\ run_result # <<"Err", "stdin read error">>

\* run has gone through the display chain and returned Ok(())
Presented == pc \in {"exit", "done"} /\ run_result = <<"Ok">>

\* s holds every entry of the map m exactly once
CoversOnce(s, m) == Len(s) = Cardinality(DOMAIN m) /\ Range(s) = Entries(m)

Min(a, b) == IF a < b THEN a ELSE b

\* The display mode of highest precedence among those requested
Mode(a) ==
    IF a.show_percent_freq THEN <<"Percentage">>
    ELSE IF a.show_top_n # None THEN <<"TopN", a.show_top_n[1]>>
    ELSE IF a.show_more_than_n # None THEN <<"MoreThan", a.show_more_than_n[1]>>
    ELSE IF a.show_less_than_n # None THEN <<"LessThan", a.show_less_than_n[1]>>
    ELSE IF a.show_exactly_n # None THEN <<"ExactlyN", a.show_exactly_n[1]>>
    ELSE <<"Plain">>

\* A command line that requests the mode md and no other
OnlyMode(a, md) ==
    [text |-> a.text, sort_by |-> a.sort_by,
     show_percent_freq |-> (md[1] = "Percentage"),
     show_top_n |-> IF md[1] = "TopN" THEN Some(md[2]) ELSE None,
     show_more_than_n |-> IF md[1] = "MoreThan" THEN Some(md[2]) ELSE None,
     show_less_than_n |-> IF md[1] = "LessThan" THEN Some(md[2]) ELSE None,
     show_exactly_n |-> IF md[1] = "ExactlyN" THEN Some(md[2]) ELSE None]

\* The entries of s whose line is among the given lines
EntriesOfLines(lines, s) == {e \in Range(s) : plain_line(e) \in Range(lines)}

----------------------------------------------------------------------------
(* Properties *)

\* C1: create_counter returns a map whose keys are exactly the non-whitespace
\* characters of the text, each mapped to its number of occurrences (compared
\* by code point); the counts sum to the number of non-whitespace characters
\* and no whitespace character is a key.
C1_CounterIsHistogram ==
    Counted =>
        /\ DOMAIN counter = {text[i] : i \in NonWhitespacePositions(text)}
        /\ \A c \in DOMAIN counter : counter[c] = Occurrences(text, c)
        /\ SumOfCounts(counter, DOMAIN counter) = Cardinality(NonWhitespacePositions(text))
        /\ DOMAIN counter \cap WhiteSpaceChars = {}

\* a text with a non-ASCII whitespace, 'a' twice and 'A' once has been counted
C1_Witness ==
    /\ pc = "done"
    /\ 160 \in Range(text)
    /\ DOMAIN counter = {65, 97}
    /\ counter[97] = 2
    /\ counter[65] = 1

\* C2: exactly one display mode is applied, chosen by the precedence
\* Percentage > TopN > MoreThan > LessThan > ExactlyN > Plain: the output is
\* the output of the highest-precedence requested mode alone, whatever the
\* lower-precedence options are, and Plain applies when none is requested.
C2_ModePrecedence ==
    Presented =>
        /\ stdout = present(OnlyMode(args, Mode(args)), sorted)
        /\ Mode(args) = <<"Percentage">> =>
                stdout = [i \in 1..Len(sorted) |-> percent_line(sorted[i], sum_counts(sorted))]
        /\ Mode(args)[1] = "TopN" =>
                stdout = plain_lines(SubSeq(sorted, 1, Min(Mode(args)[2], Len(sorted))))
        /\ Mode(args)[1] = "MoreThan" =>
                stdout = plain_lines(SelectSeq(sorted, LAMBDA e : e[2] > Mode(args)[2]))
        /\ Mode(args)[1] = "LessThan" =>
                stdout = plain_lines(SelectSeq(sorted, LAMBDA e : e[2] < Mode(args)[2]))
        /\ Mode(args)[1] = "ExactlyN" =>
                stdout = plain_lines(SelectSeq(sorted, LAMBDA e : e[2] = Mode(args)[2]))
        /\ Mode(args) = <<"Plain">> => stdout = plain_lines(sorted)

\* more-than, less-than and exactly were all requested, and the output is that
\* of more-than, which differs from what less-than or exactly alone would print
C2_Witness ==
    /\ pc = "done"
    /\ Mode(args) = <<"MoreThan", 1>>
    /\ args.show_less_than_n = Some(2)
    /\ args.show_exactly_n = Some(1)
    /\ sorted = <<<<97, 2>>>>
    /\ Len(stdout) = 1
    /\ stdout # present(OnlyMode(args, <<"LessThan", 2>>), sorted)
    /\ stdout # present(OnlyMode(args, <<"ExactlyN", 1>>), sorted)

C4_ThresholdPartition ==
    /\ Ordered =>
        \A n \in 0..MaxN :
            LET M == EntriesOfLines(present(OnlyMode(args, <<"MoreThan", n>>), sorted), sorted)
                L == EntriesOfLines(present(OnlyMode(args, <<"LessThan", n>>), sorted), sorted)
                E == EntriesOfLines(present(OnlyMode(args, <<"ExactlyN", n>>), sorted), sorted)
            IN  /\ M \cap L = {} /\ M \cap E = {} /\ L \cap E = {}
                /\ M \cup L \cup E = Entries(counter)
                /\ M = {e \in Entries(counter) : e[2] > n}
                /\ L = {e \in Entries(counter) : e[2] < n}
                /\ E = {e \in Entries(counter) : e[2] = n}
    /\ (Presented /\ Mode(args)[1] \in {"MoreThan", "LessThan", "ExactlyN"}) =>
        LET n == Mode(args)[2]
            Keep(e) == CASE Mode(args)[1] = "MoreThan" -> e[2] > n
                         [] Mode(args)[1] = "LessThan" -> e[2] < n
                         [] OTHER -> e[2] = n
        IN  /\ Range(stdout) = {plain_line(e) : e \in {x \in Entries(counter) : Keep(x)}}
            /\ Len(stdout) = Cardinality({x \in Entries(counter) : Keep(x)})

\* MoreThan(1) has run on a map with a count above 1, a count of exactly 1
\* dropped, and LessThan(1) would print nothing of it
C4_Witness ==
    /\ pc = "done"
    /\ Mode(args) = <<"MoreThan", 1>>
    /\ \E e \in Entries(counter) : e[2] > 1
    /\ \E e \in Entries(counter) : e[2] = 1
    /\ Len(stdout) = 1
    /\ Len(sorted) = 3

\* C5: with the sort key ByChar or none, the ordered sequence holds every
\* entry of the frequency map exactly once and is strictly ascending by
\* character code point.
C5_ByCharAscending ==
    (Ordered /\ args.sort_by \in {None, Some("Char")}) =>
        /\ CoversOnce(sorted, counter)
        /\ \A i \in 1..(Len(sorted) - 1) : sorted[i][1] < sorted[i + 1][1]

\* three distinct characters have been ordered with no sort key given
C5_Witness ==
    /\ pc = "done"
    /\ args.sort_by = None
    /\ Len(sorted) = 3
    /\ sorted[1][1] = 65
    /\ sorted[3][1] = 98

\* C6: with the sort key ByCount, the ordered sequence holds every entry of
\* the frequency map exactly once and its counts are non-increasing.
C6_ByCountNonIncreasing ==
    (Ordered /\ args.sort_by = Some("Count")) =>
        /\ CoversOnce(sorted, counter)
        /\ \A i \in 1..(Len(sorted) - 1) : sorted[i][2] >= sorted[i + 1][2]

\* three entries of different counts and characters have been ordered by
\* count, the most frequent one being the largest character
C6_Witness ==
    /\ pc = "done"
    /\ args.sort_by = Some("Count")
    /\ Len(sorted) = 3
    /\ sorted[1] = <<98, 2>>
    /\ sorted[2][2] = 1

\* C7: under ByCount the order of the output lines is deterministic, also
\* among entries of equal count: a second run of the same command on the same
\* input writes the same sequence of lines as the first.
C7_ByCountDeterministic ==
    (pc = "done" /\ prev # None /\ args.sort_by = Some("Count")) => stdout = prev[1]

C9_EmptyInput ==
    /\ (Counted /\ NonWhitespacePositions(text) = {}) =>
        /\ stdout = <<>>
        /\ divisors = {}
        /\ pc \in {"exit", "done"} => run_result = <<"Ok">>
        /\ pc = "done" => exit_code = 0 /\ stderr = <<>>
    /\ 0 \notin divisors

\* a whitespace-only text has gone through the percentage branch
C9_Witness ==
    /\ pc = "done"
    /\ text = <<32, 160>>
    /\ args.show_percent_freq
    /\ args.sort_by = Some("Count")
    /\ exit_code = 0

\* C10: with a text argument, the analysed text is that argument and standard
\* input is never read; without one, standard input is read once, to its end,
\* the analysed text is its whole content, and the read is over before any
\* result line is written.
C10_InputAcquisition ==
    /\ pc = "read_text" => stdout = <<>> /\ reads = 0 /\ stdin.pos = 0
    /\ (pc # "read_text" /\ args.text # None) =>
            /\ text = args.text[1]
            /\ reads = 0
            /\ stdin.pos = 0
    /\ (pc # "read_text" /\ args.text = None) =>
            /\ reads = 1
            /\ stdin.ok => (text = stdin.data /\ stdin.pos = Len(stdin.data))
    /\ (stdout # <<>> /\ args.text = None) =>
            /\ reads = 1
            /\ stdin.pos = Len(stdin.data)

\* without a text argument a two-character standard input has been read whole
\* and its lines printed
C10_Witness ==
    /\ pc = "done"
    /\ args.text = None
    /\ stdin.data = <<97, 98>>
    /\ text = <<97, 98>>
    /\ Len(stdout) = 2

\* with a text argument the pending standard input was left alone
C10_WitnessArgument ==
    /\ pc = "done"
    /\ args.text = Some(<<97>>)
    /\ stdin.data = <<98, 98>>
    /\ Len(stdout) = 1
====
